---- MODULE Spec2Model ----
(***************************************************************************)
(* Model of manager_agent: Workspace.fork (workspace_utils.py) and         *)
(* spawn_sub_agents (agent.py).  One spawn_sub_agents call is followed     *)
(* from its entry to its return or raise, gateway call by gateway call;    *)
(* the task units started by asyncio.gather interleave freely and keep     *)
(* running when gather has raised.  The remote gateway is the environment: *)
(* every gateway call may succeed or fail, the snapshot trigger resolves   *)
(* asynchronously, and the clock advances during sleeps and status calls.  *)
(***************************************************************************)
EXTENDS Integers, Sequences, FiniteSets, TLC

\* ------------------------------------------------------------------ bounds
MaxTasks == 2      \* longest task_prompts list
MaxExec == 1       \* most exec calls one task unit issues
MaxTimeout == 2    \* largest timeout (seconds) handed to fork

\* --------------------------------------------------------- program constants
SourceId == 0      \* id of the module-level workspace (Workspace.create())
SleepSeconds == 1  \* time.sleep(1) between two status checks

\* Task prompts a caller may pass.
Prompts == {"echo A", "echo B"}

\* fork's timeout keyword, in seconds.  Its default is 60.0 and
\* spawn_sub_agents leaves it there; the model ranges over short timeouts,
\* zero and a negative one included, so that the deadline is reached after a
\* few polls.
Timeouts == (0 - 1)..MaxTimeout

\* Seconds one status round trip may take, as time.monotonic() sees them.
CheckLatencies == {0, 1}

\* The loop stops sleeping once the clock has passed the deadline, so the
\* clock never runs past this; the guard of Sleep keeps the model finite.
ClockCap == MaxTimeout + 3

VARIABLES
    pc,                \* position of the spawn_sub_agents call
    error,             \* what the call raised, named after the raising site
    task_prompts,      \* argument of spawn_sub_agents
    timeout,           \* keyword argument of fork
    now,               \* time.monotonic()
    deadline,          \* fork: deadline
    trigger,           \* gateway: state of the snapshot trigger
    triggerCalls,      \* number of create_snapshot_trigger calls issued
    lastCheck,         \* gateway: outcome of the latest status call
    status,            \* fork: status
    statusChecks,      \* number of get_snapshot_status calls issued
    sleeps,            \* number of time.sleep calls issued
    restoreCalls,      \* number of restore_from_snapshot calls issued
    restoreLog,        \* ids returned by the successful restores, in order
    nextId,            \* gateway: next fresh workspace id
    forked_workspaces, \* fork: workspaces / spawn_sub_agents: forked_workspaces
    tasks,             \* spawn_sub_agents: tasks, as <<prompt, ws>> bindings
    unitState,         \* per task unit: "running", "done" or "failed"
    unitResult,        \* per task unit: the response it returned
    execCount,         \* per task unit: exec calls issued so far
    execLog,           \* gateway: exec calls received
    completed,         \* task units in the order they finished
    responses,         \* spawn_sub_agents: responses
    deleteLog,         \* gateway: delete calls received, in order
    active,            \* gateway: workspaces that exist
    results,           \* spawn_sub_agents: results
    peer               \* a second spawn_sub_agents call on the same source

vars == <<pc, error, task_prompts, timeout, now, deadline, trigger,
          triggerCalls, lastCheck, status, statusChecks, sleeps, restoreCalls, restoreLog, nextId,
          forked_workspaces, tasks, unitState, unitResult, execCount, execLog,
          completed, responses, deleteLog, active, results, peer>>

callVars == <<task_prompts, timeout, peer>>
gwVars == <<trigger, triggerCalls>>
pollVars == <<now, deadline, lastCheck, status, statusChecks, sleeps>>
restoreVars == <<restoreCalls, restoreLog, nextId, forked_workspaces>>
unitVars == <<tasks, unitState, unitResult, execCount, execLog, completed>>
tearVars == <<responses, deleteLog, results>>

\* ----------------------------------------------------------------- helpers
Min(a, b) == IF a < b THEN a ELSE b

SeqsUpTo(S, n) == UNION {[1..k -> S] : k \in 0..n}

Count(s, x) == Cardinality({i \in 1..Len(s) : s[i] = x})

Range(s) == {s[i] : i \in 1..Len(s)}

\* Python's zip: pairs up to the shorter of the two lists.
Zip(s, t) == [i \in 1..Min(Len(s), Len(t)) |-> <<s[i], t[i]>>]

Init ==
    /\ pc = "idle"
    /\ error = "none"
    /\ task_prompts = <<>>
    /\ timeout = 0
    /\ now = 0
    /\ deadline = 0
    /\ trigger = "none"
    /\ triggerCalls = 0
    /\ lastCheck = "none"
    /\ status = "unset"
    /\ statusChecks = 0
    /\ sleeps = 0
    /\ restoreCalls = 0
    /\ restoreLog = <<>>
    /\ nextId = SourceId + 1
    /\ forked_workspaces = <<>>
    /\ tasks = <<>>
    /\ unitState = <<>>
    /\ unitResult = <<>>
    /\ execCount = <<>>
    /\ execLog = {}
    /\ completed = <<>>
    /\ responses = <<>>
    /\ deleteLog = <<>>
    /\ active = {SourceId}
    /\ results = <<>>
    /\ peer = [pc |-> "idle", error |-> "none", n |-> 0, trigger |-> "none",
               forked |-> <<>>, unit |-> <<>>, execs |-> <<>>,
               execLog |-> {}, deleteLog |-> <<>>]

\* spawn_sub_agents(task_prompts) is entered; it calls Workspace.fork.
Call ==
    /\ pc = "idle"
    /\ \E p \in SeqsUpTo(Prompts, MaxTasks), t \in Timeouts :
        /\ task_prompts' = p
        /\ timeout' = t
    /\ pc' = "create_trigger"
    /\ UNCHANGED <<error, gwVars, peer>>
    /\ UNCHANGED <<pollVars, restoreVars, unitVars, tearVars, active>>

\* ------------------------------------------------------- Workspace.fork
\* num_of_workspace=len(task_prompts)
NumOfWorkspace == Len(task_prompts)

\* deadline = time.monotonic() + timeout
Deadline(t, to) == t + to

\* What a status call can come back with: the trigger's state as the gateway
\* holds it, an error status (raise_for_status raises httpx.HTTPStatusError),
\* or a failure below HTTP (httpx.TransportError: connect, read timeout).
CheckErrors == {"http_error", "transport_error"}
CheckOutcomes == {trigger} \cup CheckErrors

\* except httpx.HTTPStatusError: the only exception the poll loop catches.
CaughtByPoll(out) == out = "http_error"

\* The status dict after a status call that did not raise past the handler;
\* "empty" is {}.
StatusOf(out) == IF CaughtByPoll(out) THEN "empty" ELSE out

\* status.get("ready")
StatusGetReady(st) == st = "ready"

\* A loop without the deadline test.
PollDecisionNoDeadline(st, t, dl) ==
    IF StatusGetReady(st) THEN "break" ELSE "sleep"

\* A loop that stops waiting at the deadline but goes on to restore.
PollDecisionBreakAtDeadline(st, t, dl) ==
    IF StatusGetReady(st) \/ t >= dl THEN "break" ELSE "sleep"

\* A loop that tests the deadline before it looks at the status.
PollDecisionDeadlineFirst(st, t, dl) ==
    IF t >= dl THEN "timeout"
    ELSE IF StatusGetReady(st) THEN "break"
    ELSE "sleep"

\* One pass of the loop body after the status call: the ready test comes
\* first, the deadline test second, the sleep last.
PollDecision(st, t, dl) ==
    IF StatusGetReady(st) THEN "break"
    ELSE IF t >= dl THEN "timeout"
    ELSE "sleep"

\* A trigger creation that is tried again when it fails.
CreateTriggerRetry ==
    /\ pc = "create_trigger"
    /\ triggerCalls' = triggerCalls + 1
    /\ \E ok \in BOOLEAN :
        IF ok
        THEN /\ trigger' = "pending"
             /\ deadline' = Deadline(now, timeout)
             /\ pc' = "poll"
        ELSE UNCHANGED <<pc, trigger, deadline>>
    /\ UNCHANGED <<error, callVars, now, lastCheck, status, statusChecks, sleeps>>
    /\ UNCHANGED <<restoreVars, unitVars, tearVars, active>>

\* trigger = source.create_snapshot_trigger(); deadline = ...
CreateTrigger ==
    /\ pc = "create_trigger"
    /\ triggerCalls' = triggerCalls + 1
    /\ \E ok \in BOOLEAN :
        IF ok
        THEN /\ trigger' = "pending"
             /\ deadline' = Deadline(now, timeout)
             /\ pc' = "poll"
             /\ error' = error
        ELSE /\ pc' = "raised"
             /\ error' = "TriggerCallError"
             /\ UNCHANGED <<trigger, deadline>>
    /\ UNCHANGED <<callVars, now, lastCheck, status, statusChecks, sleeps>>
    /\ UNCHANGED <<restoreVars, unitVars, tearVars, active>>

\* The gateway finishes (or gives up) the snapshot on its own schedule.
TriggerResolve ==
    /\ trigger = "pending"
    /\ trigger' \in {"ready", "failed"}
    /\ UNCHANGED <<pc, error, callVars, triggerCalls, pollVars>>
    /\ UNCHANGED <<restoreVars, unitVars, tearVars, active>>

\* One iteration of the while loop up to (not including) the sleep: the
\* status call, the except clause, the ready test and the deadline test.
PollCheck ==
    /\ pc = "poll"
    /\ \E out \in CheckOutcomes, lat \in CheckLatencies :
        /\ lastCheck' = out
        /\ statusChecks' = statusChecks + 1
        /\ now' = now + lat
        /\ IF out \in CheckErrors /\ ~CaughtByPoll(out)
           THEN /\ status' = status
                /\ pc' = "raised"
                /\ error' = "StatusCallError"
           ELSE /\ status' = StatusOf(out)
                /\ LET d == PollDecision(status', now', deadline) IN
                   /\ pc' = CASE d = "break" -> "restore"
                              [] d = "timeout" -> "raised"
                              [] OTHER -> "sleep"
                   /\ error' = IF d = "timeout" THEN "TimeoutError" ELSE error
    /\ UNCHANGED <<callVars, gwVars, deadline, sleeps>>
    /\ UNCHANGED <<restoreVars, unitVars, tearVars, active>>

\* time.sleep(1)
Sleep ==
    /\ pc = "sleep"
    /\ now < ClockCap
    /\ now' = now + SleepSeconds
    /\ sleeps' = sleeps + 1
    /\ pc' = "poll"
    /\ UNCHANGED <<error, callVars, gwVars, deadline, lastCheck, status,
                   statusChecks>>
    /\ UNCHANGED <<restoreVars, unitVars, tearVars, active>>

\* Handles collected newest first.
PrependHandle(ws, id) == <<id>> \o ws

\* workspaces.append(cls(result["workspace_id"]))
AppendHandle(ws, id) == Append(ws, id)

\* One iteration of the restore loop.
Restore ==
    /\ pc = "restore"
    /\ Len(forked_workspaces) < NumOfWorkspace
    /\ restoreCalls' = restoreCalls + 1
    /\ \E ok \in BOOLEAN :
        IF ok
        THEN /\ restoreLog' = Append(restoreLog, nextId)
             /\ forked_workspaces' = AppendHandle(forked_workspaces, nextId)
             /\ active' = active \cup {nextId}
             /\ nextId' = nextId + 1
             /\ UNCHANGED <<pc, error>>
        ELSE /\ pc' = "raised"
             /\ error' = "RestoreCallError"
             /\ UNCHANGED <<restoreLog, forked_workspaces, active, nextId>>
    /\ UNCHANGED <<callVars, gwVars, pollVars, unitVars, tearVars>>

\* ---------------------------------------------------- spawn_sub_agents
\* Task units started inside the restore loop, one batch per workspace that
\* has arrived, instead of after fork has returned.
SpawnTasksEager ==
    /\ pc = "restore"
    /\ tasks # Zip(task_prompts, forked_workspaces)
    /\ tasks' = Zip(task_prompts, forked_workspaces)
    /\ unitState' = [i \in DOMAIN tasks' |-> "running"]
    /\ unitResult' = [i \in DOMAIN tasks' |-> "none"]
    /\ execCount' = [i \in DOMAIN tasks' |-> 0]
    /\ UNCHANGED <<pc, error, callVars, gwVars, pollVars, restoreVars>>
    /\ UNCHANGED <<execLog, completed, tearVars, active>>

\* tasks = [_run_sub_agent(prompt, ws) for prompt, ws in zip(...)], entered
\* when the restore loop has run num_of_workspace times and fork returns.
\* fork removing its trigger before it returns.
SpawnTasksDeletingTrigger ==
    /\ pc = "restore"
    /\ Len(forked_workspaces) >= NumOfWorkspace
    /\ tasks' = Zip(task_prompts, forked_workspaces)
    /\ unitState' = [i \in DOMAIN tasks' |-> "running"]
    /\ unitResult' = [i \in DOMAIN tasks' |-> "none"]
    /\ execCount' = [i \in DOMAIN tasks' |-> 0]
    /\ pc' = "gather"
    /\ trigger' = "deleted"
    /\ UNCHANGED <<error, callVars, triggerCalls, pollVars, restoreVars>>
    /\ UNCHANGED <<execLog, completed, tearVars, active>>

SpawnTasks ==
    /\ pc = "restore"
    /\ Len(forked_workspaces) >= NumOfWorkspace
    /\ tasks' = Zip(task_prompts, forked_workspaces)
    /\ unitState' = [i \in DOMAIN tasks' |-> "running"]
    /\ unitResult' = [i \in DOMAIN tasks' |-> "none"]
    /\ execCount' = [i \in DOMAIN tasks' |-> 0]
    /\ pc' = "gather"
    /\ UNCHANGED <<error, callVars, gwVars, pollVars, restoreVars>>
    /\ UNCHANGED <<execLog, completed, tearVars, active>>

Units == DOMAIN tasks

\* A tool bound to the module-level workspace, as the manager's own tool is.
SubExecTargetGlobal(i) == SourceId

\* _make_sub_execute_command(ws): the workspace unit i's tool is bound to.
SubExecTarget(i) == tasks[i][2]

\* Unit i's agent calls its execute_command tool: ws.exec(command).
UnitExec(i) ==
    /\ unitState[i] = "running"
    /\ execCount[i] < MaxExec
    /\ execCount' = [execCount EXCEPT ![i] = @ + 1]
    /\ execLog' = execLog \cup
           {[unit |-> i, ws |-> SubExecTarget(i), n |-> execCount[i] + 1,
             deleted |-> SubExecTarget(i) \in Range(deleteLog)]}
    /\ UNCHANGED <<pc, error, callVars, gwVars, pollVars, restoreVars>>
    /\ UNCHANGED <<tasks, unitState, unitResult, completed, tearVars, active>>

\* _run_sub_agent returns the response of the unit that ran tasks[i].
UnitReturn(i) ==
    /\ unitState[i] = "running"
    /\ unitState' = [unitState EXCEPT ![i] = "done"]
    /\ unitResult' = [unitResult EXCEPT ![i] = [by |-> i, prompt |-> tasks[i][1]]]
    /\ completed' = Append(completed, i)
    /\ UNCHANGED <<pc, error, callVars, gwVars, pollVars, restoreVars>>
    /\ UNCHANGED <<tasks, execCount, execLog, tearVars, active>>

\* _run_sub_agent raises (session creation, the model run or a tool fails).
UnitRaise(i) ==
    /\ unitState[i] = "running"
    /\ unitState' = [unitState EXCEPT ![i] = "failed"]
    /\ completed' = Append(completed, i)
    /\ UNCHANGED <<pc, error, callVars, gwVars, pollVars, restoreVars>>
    /\ UNCHANGED <<tasks, unitResult, execCount, execLog, tearVars, active>>

\* A join that is over as soon as one unit has returned.
GatherFirstDone == \E i \in Units : unitState[i] = "done"

\* asyncio.gather(*tasks) has a result once every awaitable has returned.
GatherDone == \A i \in Units : unitState[i] = "done"

\* Responses collected in the order the units finished.
GatherResultsByCompletion ==
    [k \in Units |-> IF k <= Len(completed) THEN unitResult[completed[k]]
                                            ELSE "none"]

\* The list gather returns: one entry per awaitable, in argument order.
GatherResults == [i \in Units |-> unitResult[i]]

\* responses = await asyncio.gather(*tasks), every unit having returned.
GatherReturn ==
    /\ pc = "gather"
    /\ GatherDone
    /\ responses' = GatherResults
    /\ pc' = "teardown"
    /\ UNCHANGED <<error, callVars, gwVars, pollVars, restoreVars, unitVars>>
    /\ UNCHANGED <<deleteLog, results, active>>

\* gather without return_exceptions: the first exception of a unit is raised
\* to the awaiting call; the other units are not cancelled.
GatherRaise ==
    /\ pc = "gather"
    /\ \E i \in Units : unitState[i] = "failed"
    /\ pc' = "raised"
    /\ error' = "TaskError"
    /\ UNCHANGED <<callVars, gwVars, pollVars, restoreVars, unitVars>>
    /\ UNCHANGED <<tearVars, active>>

\* A teardown that also visits the workspace the fork was taken from.
TeardownTargetsWithSource == Append(forked_workspaces, SourceId)

\* A teardown list kept at module level, shared by every call.
TeardownTargetsShared == [i \in 1..(nextId - 1 - SourceId) |-> SourceId + i]

\* for ws in forked_workspaces: the workspaces the teardown loop visits.
TeardownTargets == forked_workspaces

\* One iteration of the teardown loop: ws.delete().
DeleteStep ==
    /\ pc = "teardown"
    /\ Len(deleteLog) < Len(TeardownTargets)
    /\ LET ws == TeardownTargets[Len(deleteLog) + 1] IN
        /\ deleteLog' = Append(deleteLog, ws)
        /\ \E ok \in BOOLEAN :
            IF ok
            THEN /\ active' = active \ {ws}
                 /\ UNCHANGED <<pc, error>>
            ELSE /\ pc' = "raised"
                 /\ error' = "DeleteCallError"
                 /\ active' = active
    /\ UNCHANGED <<callVars, gwVars, pollVars, restoreVars, unitVars>>
    /\ UNCHANGED <<responses, results>>

\* results.append({"prompt": prompt, "response": response}) over the zip.
BuildResults(ps, rs) ==
    [i \in DOMAIN Zip(ps, rs) |->
        [prompt |-> Zip(ps, rs)[i][1], response |-> Zip(ps, rs)[i][2]]]

\* The teardown loop is over: build results and return {"results": results}.
Return ==
    /\ pc = "teardown"
    /\ Len(deleteLog) >= Len(TeardownTargets)
    /\ results' = BuildResults(task_prompts, responses)
    /\ pc' = "returned"
    /\ UNCHANGED <<error, callVars, gwVars, pollVars, restoreVars, unitVars>>
    /\ UNCHANGED <<responses, deleteLog, active>>

Next ==
    \/ Call
    \/ CreateTrigger
    \/ TriggerResolve
    \/ PollCheck
    \/ Sleep
    \/ Restore
    \/ SpawnTasks
    \/ \E i \in Units : UnitExec(i)
    \/ \E i \in Units : UnitReturn(i)
    \/ \E i \in Units : UnitRaise(i)
    \/ GatherReturn
    \/ GatherRaise
    \/ DeleteStep
    \/ Return

Spec == Init /\ [][Next]_vars

\* ----------------------------------------------------- phases of the call
CallEnded == pc \in {"returned", "raised"}

ForkErrors ==
    {"TriggerCallError", "StatusCallError", "TimeoutError", "RestoreCallError"}

\* Workspace.fork raised: the call never got past its first statement.
ForkFailed == pc = "raised" /\ error \in ForkErrors

\* Workspace.fork returned its list to spawn_sub_agents.
ForkReturned ==
    \/ pc \in {"gather", "teardown", "returned"}
    \/ pc = "raised" /\ error \in {"TaskError", "DeleteCallError"}

Forked == Range(forked_workspaces)

\* fork is straight-line synchronous code: while its gateway calls come back
\* and its sleeps end, it takes its next step.
FairSpec == Spec /\ WF_vars(PollCheck) /\ WF_vars(Sleep)

\* ------------------------------------------- a second, overlapping call
\* spawn_sub_agents is a coroutine on one event loop: a second call can be
\* entered only while the first is suspended in its await (or is over), and
\* neither call is interrupted between two awaits.  The second call runs the
\* same code on the same source workspace and the same gateway; it is
\* followed in what the two calls can share, the gateway's workspaces and
\* triggers, with its poll loop folded into one step.
MainYielded == pc \in {"gather", "returned", "raised"}

PeerYielded == peer.pc \in {"idle", "gather", "returned", "raised"}

PeerUnits == DOMAIN peer.unit

PeerForked == Range(peer.forked)

\* The second spawn_sub_agents(task_prompts) is entered while the first
\* awaits its gather.
PeerCall ==
    /\ pc = "gather"
    /\ peer.pc = "idle"
    /\ \E p \in SeqsUpTo(Prompts, MaxTasks) :
        peer' = [peer EXCEPT !.pc = "create_trigger", !.n = Len(p)]
    /\ UNCHANGED <<pc, error, task_prompts, timeout, gwVars, pollVars>>
    /\ UNCHANGED <<restoreVars, unitVars, tearVars, active>>

\* trigger = source.create_snapshot_trigger()
PeerCreateTrigger ==
    /\ MainYielded
    /\ peer.pc = "create_trigger"
    /\ \E ok \in BOOLEAN :
        peer' = IF ok
                THEN [peer EXCEPT !.pc = "poll", !.trigger = "pending"]
                ELSE [peer EXCEPT !.pc = "raised",
                                  !.error = "TriggerCallError"]
    /\ UNCHANGED <<pc, error, task_prompts, timeout, gwVars, pollVars>>
    /\ UNCHANGED <<restoreVars, unitVars, tearVars, active>>

\* The whole poll loop: it ends with ready observed, with TimeoutError (the
\* trigger still pending or failed) or with an uncaught status error.
PeerPoll ==
    /\ MainYielded
    /\ peer.pc = "poll"
    /\ \/ peer' = [peer EXCEPT !.pc = "restore", !.trigger = "ready"]
       \/ \E t \in {"pending", "failed"},
             e \in {"TimeoutError", "StatusCallError"} :
            peer' = [peer EXCEPT !.pc = "raised", !.trigger = t, !.error = e]
    /\ UNCHANGED <<pc, error, task_prompts, timeout, gwVars, pollVars>>
    /\ UNCHANGED <<restoreVars, unitVars, tearVars, active>>

\* One iteration of the restore loop; the gateway's ids are shared.
PeerRestore ==
    /\ MainYielded
    /\ peer.pc = "restore"
    /\ Len(peer.forked) < peer.n
    /\ \E ok \in BOOLEAN :
        IF ok
        THEN /\ peer' = [peer EXCEPT !.forked = AppendHandle(@, nextId)]
             /\ active' = active \cup {nextId}
             /\ nextId' = nextId + 1
        ELSE /\ peer' = [peer EXCEPT !.pc = "raised",
                                     !.error = "RestoreCallError"]
             /\ UNCHANGED <<active, nextId>>
    /\ UNCHANGED <<pc, error, task_prompts, timeout, gwVars, pollVars>>
    /\ UNCHANGED <<restoreCalls, restoreLog, forked_workspaces>>
    /\ UNCHANGED <<unitVars, tearVars>>

\* fork returns; tasks = [... zip(task_prompts, forked_workspaces)]
PeerSpawnTasks ==
    /\ MainYielded
    /\ peer.pc = "restore"
    /\ Len(peer.forked) >= peer.n
    /\ peer' = [peer EXCEPT
                  !.pc = "gather",
                  !.unit = [i \in 1..Min(peer.n, Len(peer.forked)) |-> "running"],
                  !.execs = [i \in 1..Min(peer.n, Len(peer.forked)) |-> 0]]
    /\ UNCHANGED <<pc, error, task_prompts, timeout, gwVars, pollVars>>
    /\ UNCHANGED <<restoreVars, unitVars, tearVars, active>>

\* _make_sub_execute_command(ws) for unit i of the second call.
PeerExecTarget(i) == peer.forked[i]

\* Unit i of the second call issues ws.exec(command).
PeerUnitExec(i) ==
    /\ MainYielded
    /\ PeerYielded
    /\ peer.unit[i] = "running"
    /\ peer.execs[i] < MaxExec
    /\ peer' = [peer EXCEPT
                  !.execs[i] = @ + 1,
                  !.execLog = @ \cup {[unit |-> i, ws |-> PeerExecTarget(i)]}]
    /\ UNCHANGED <<pc, error, task_prompts, timeout, gwVars, pollVars>>
    /\ UNCHANGED <<restoreVars, unitVars, tearVars, active>>

\* Unit i of the second call returns or raises.
PeerUnitEnd(i) ==
    /\ MainYielded
    /\ PeerYielded
    /\ peer.unit[i] = "running"
    /\ \E s \in {"done", "failed"} : peer' = [peer EXCEPT !.unit[i] = s]
    /\ UNCHANGED <<pc, error, task_prompts, timeout, gwVars, pollVars>>
    /\ UNCHANGED <<restoreVars, unitVars, tearVars, active>>

\* responses = await asyncio.gather(*tasks): all returned, or one raised.
PeerGather ==
    /\ MainYielded
    /\ peer.pc = "gather"
    /\ \/ /\ \A i \in PeerUnits : peer.unit[i] = "done"
          /\ peer' = [peer EXCEPT !.pc = "teardown"]
       \/ /\ \E i \in PeerUnits : peer.unit[i] = "failed"
          /\ peer' = [peer EXCEPT !.pc = "raised", !.error = "TaskError"]
    /\ UNCHANGED <<pc, error, task_prompts, timeout, gwVars, pollVars>>
    /\ UNCHANGED <<restoreVars, unitVars, tearVars, active>>

\* for ws in forked_workspaces: ws.delete(), in the second call.
PeerDeleteStep ==
    /\ MainYielded
    /\ peer.pc = "teardown"
    /\ Len(peer.deleteLog) < Len(peer.forked)
    /\ LET ws == peer.forked[Len(peer.deleteLog) + 1] IN
        \E ok \in BOOLEAN :
            IF ok
            THEN /\ peer' = [peer EXCEPT !.deleteLog = Append(@, ws)]
                 /\ active' = active \ {ws}
            ELSE /\ peer' = [peer EXCEPT !.deleteLog = Append(@, ws),
                                         !.pc = "raised",
                                         !.error = "DeleteCallError"]
                 /\ active' = active
    /\ UNCHANGED <<pc, error, task_prompts, timeout, gwVars, pollVars>>
    /\ UNCHANGED <<restoreVars, unitVars, tearVars>>

\* return {"results": results}, in the second call.
PeerReturn ==
    /\ MainYielded
    /\ peer.pc = "teardown"
    /\ Len(peer.deleteLog) >= Len(peer.forked)
    /\ peer' = [peer EXCEPT !.pc = "returned"]
    /\ UNCHANGED <<pc, error, task_prompts, timeout, gwVars, pollVars>>
    /\ UNCHANGED <<restoreVars, unitVars, tearVars, active>>

NextTwo ==
    \/ Next /\ PeerYielded
    \/ PeerCall
    \/ PeerCreateTrigger
    \/ PeerPoll
    \/ PeerRestore
    \/ PeerSpawnTasks
    \/ \E i \in PeerUnits : PeerUnitExec(i)
    \/ \E i \in PeerUnits : PeerUnitEnd(i)
    \/ PeerGather
    \/ PeerDeleteStep
    \/ PeerReturn

TwoCallSpec == Init /\ [][NextTwo]_vars

\* ------------------------------------------------------------------ claims
\* C1: when a spawn_sub_agents call whose fork succeeded has returned or
\* raised, every workspace forked for it has had delete invoked on it exactly
\* once, whichever task units succeeded or raised.
C1_CleanupComplete ==
    (CallEnded /\ ForkReturned) =>
        \A w \in Forked : Count(deleteLog, w) = 1

\* C2: when a task unit has raised, the call still ends by returning a result
\* list with one entry per input task, every sibling unit having run to
\* completion; the unit's error is not raised out of the call.
C2_Isolation ==
    (CallEnded /\ ForkReturned /\ \E i \in Units : unitState[i] = "failed") =>
        /\ pc = "returned"
        /\ Len(results) = Len(task_prompts)
        /\ \A i \in Units : unitState[i] # "running"

\* C3: a status check that reports the trigger as failed makes fork fail on
\* that very check: fork is never left sleeping or polling after it.
C3_FailFast ==
    (statusChecks > 0 /\ lastCheck = "failed") => ForkFailed

C6_ForkCardinality ==
    ForkReturned =>
        /\ restoreCalls = NumOfWorkspace
        /\ Len(restoreLog) = NumOfWorkspace
        /\ Len(forked_workspaces) = NumOfWorkspace
        /\ \A i \in 1..NumOfWorkspace : forked_workspaces[i] = restoreLog[i]
        /\ \A i, j \in 1..NumOfWorkspace :
               i # j => forked_workspaces[i] # forked_workspaces[j]
        /\ SourceId \notin Forked

\* A fork of at least two workspaces has returned.
C6_Witness ==
    /\ pc = "gather"
    /\ NumOfWorkspace >= 2
    /\ Len(forked_workspaces) = NumOfWorkspace

\* C7: whatever order the task units finish in, the returned result list is
\* as long as the input list, and its i-th entry carries the i-th input prompt
\* and the response of the unit that ran the i-th prompt.
C7_ResultOrder ==
    pc = "returned" =>
        /\ Len(results) = Len(task_prompts)
        /\ \A i \in 1..Len(task_prompts) :
            /\ results[i].prompt = task_prompts[i]
            /\ results[i].response = [by |-> i, prompt |-> task_prompts[i]]

\* The call returned two results whose units finished in the reverse order.
C7_Witness ==
    /\ pc = "returned"
    /\ Len(results) >= 2
    /\ completed[1] > completed[2]
    /\ task_prompts[1] # task_prompts[2]

\* C8: task i is bound to forked workspace i, every exec unit i issues goes
\* to forked workspace i, no two units ever exec against the same workspace,
\* and no unit execs against the source workspace.
C8_ExclusiveBinding ==
    /\ \A i \in Units : tasks[i] = <<task_prompts[i], forked_workspaces[i]>>
    /\ \A e \in execLog :
        /\ e.ws = forked_workspaces[e.unit]
        /\ e.ws # SourceId
    /\ \A e1, e2 \in execLog : e1.ws = e2.ws => e1.unit = e2.unit

\* Two different units have both issued an exec.
C8_Witness == \E e1, e2 \in execLog : e1.unit # e2.unit

\* C9: in every interleaving, also when a unit fails while its siblings are
\* still running, no exec is issued against a forked workspace after delete
\* has been issued for that workspace.
C9_NoExecAfterDelete == \A e \in execLog : ~e.deleted

\* The teardown has issued delete for a workspace its unit had exec'd in.
C9_Witness ==
    /\ deleteLog # <<>>
    /\ \E e \in execLog : e.ws \in Range(deleteLog)

\* C10: a failed status check, whether the endpoint answers with an error
\* status or the call fails at transport level, counts as not yet ready: as
\* long as the deadline has not passed, fork goes on polling after it.
C10_TransientTolerance ==
    (statusChecks > 0 /\ lastCheck \in CheckErrors /\ now < deadline) =>
        pc \in {"sleep", "poll"}

\* C11: when the fork phase fails (trigger creation error, timeout, uncaught
\* status error or restore error) the call raises that error and no task unit
\* has been started: no sub-agent exists and no exec has been issued.
C11_ForkErrorBeforeUnits ==
    /\ (triggerCalls > 0 /\ trigger = "none") =>
           (pc = "raised" /\ error = "TriggerCallError")
    /\ restoreCalls > Len(restoreLog) =>
           (pc = "raised" /\ error = "RestoreCallError")
    /\ ForkFailed =>
        /\ tasks = <<>>
        /\ unitState = <<>>
        /\ completed = <<>>
        /\ execLog = {}
        /\ responses = <<>>
        /\ results = <<>>

\* The second restore of a fork failed, after the first had succeeded.
C11_Witness ==
    /\ ForkFailed
    /\ error = "RestoreCallError"
    /\ Len(forked_workspaces) >= 1
    /\ restoreCalls >= 2

\* C12: once the teardown has begun, a failing delete does not keep the
\* remaining forked workspaces from getting their delete attempt, and the call
\* still returns the result batch instead of raising the deletion error.
C12_BestEffortTeardown ==
    (CallEnded /\ deleteLog # <<>>) =>
        /\ pc = "returned"
        /\ \A w \in Forked : w \in Range(deleteLog)
        /\ Len(results) = Len(task_prompts)

\* C13: when a restore of a fork fails, every workspace the earlier restores
\* of that fork created has had a delete attempted on it before the error
\* leaves fork.
C13_PartialRestoreCleanup ==
    (pc = "raised" /\ error = "RestoreCallError") =>
        \A w \in Range(restoreLog) : w \in Range(deleteLog)

\* C14: a fork with count 0 issues at most one snapshot-trigger creation and
\* no other gateway call: no status check and no restore.
C14_ZeroCountNoCalls ==
    (pc # "idle" /\ NumOfWorkspace = 0) =>
        /\ triggerCalls <= 1
        /\ statusChecks = 0
        /\ restoreCalls = 0

\* C15: a call with an empty task list ends by returning an empty result
\* list, whatever the gateway answers for trigger creation and status.
C15_EmptyBatch ==
    (CallEnded /\ task_prompts = <<>>) =>
        (pc = "returned" /\ results = <<>>)

\* C16: fork and spawn_sub_agents never exec in the source workspace and
\* never delete it, so it still exists whenever the call has returned or
\* raised; their only gateway call naming it is the trigger creation.
C16_SourceUntouched ==
    /\ SourceId \notin Range(deleteLog)
    /\ \A e \in execLog : e.ws # SourceId
    /\ SourceId \in active

\* The call has returned after units exec'd and the teardown deleted.
C16_Witness ==
    /\ pc = "returned"
    /\ execLog # {}
    /\ Len(deleteLog) >= 2
    /\ active = {SourceId}

\* C17: fork issues exactly one snapshot-trigger creation per invocation; when
\* that call fails, fork fails at once with its error, without a retry and
\* without any status check or restore.
C17_SingleTriggerCall ==
    /\ triggerCalls <= 1
    /\ pc \notin {"idle", "create_trigger"} => triggerCalls = 1
    /\ (triggerCalls = 1 /\ trigger = "none") =>
        /\ pc = "raised"
        /\ error = "TriggerCallError"
        /\ statusChecks = 0
        /\ sleeps = 0
        /\ restoreCalls = 0

\* The trigger creation of a fork asked for workspaces has failed.
C17_Witness ==
    /\ pc = "raised"
    /\ error = "TriggerCallError"
    /\ triggerCalls = 1
    /\ NumOfWorkspace > 0

\* C18: the ready test precedes the deadline test.  Whatever the timeout, a
\* fork that got its trigger leaves the loop only after a status check; a
\* check that reports ready leads on to the restores even when the deadline
\* has passed; and TimeoutError is raised only right after a check that did
\* not report ready, at or after the deadline.
C18_ReadyBeforeDeadline ==
    /\ (pc \notin {"idle", "create_trigger", "poll"} /\ trigger # "none") =>
           statusChecks >= 1
    /\ (statusChecks > 0 /\ lastCheck = "ready") =>
           (StatusGetReady(status) /\ error # "TimeoutError" /\ pc # "sleep")
    /\ error = "TimeoutError" =>
        /\ pc = "raised"
        /\ lastCheck \in {"pending", "failed", "http_error"}
        /\ ~StatusGetReady(status)
        /\ now >= deadline
        /\ restoreCalls = 0

\* A status check reported ready after the deadline had passed, and fork
\* went on to restore.
C18_Witness ==
    /\ lastCheck = "ready"
    /\ now > deadline
    /\ timeout <= 0
    /\ statusChecks = 1
    /\ restoreCalls >= 1

\* C19: two overlapping spawn_sub_agents calls on the same source keep
\* apart.  The sets of workspaces they forked are disjoint, a unit of either
\* call runs its commands only in the workspace its own call forked for it,
\* and each call deletes only workspaces it forked itself.
C19_OverlappingCalls ==
    /\ Forked \cap PeerForked = {}
    /\ \A e \in execLog :
        /\ e.unit \in DOMAIN forked_workspaces
        /\ e.ws = forked_workspaces[e.unit]
        /\ e.ws \notin PeerForked
    /\ \A e \in peer.execLog :
        /\ e.unit \in DOMAIN peer.forked
        /\ e.ws = peer.forked[e.unit]
        /\ e.ws \notin Forked
    /\ Range(deleteLog) \subseteq Forked
    /\ Range(peer.deleteLog) \subseteq PeerForked

\* Both calls forked, ran commands and tore down, the second one having
\* been entered while the first awaited its units.
C19_Witness ==
    /\ pc = "returned"
    /\ peer.pc = "returned"
    /\ execLog # {}
    /\ peer.execLog # {}
    /\ Len(deleteLog) >= 1
    /\ Len(peer.deleteLog) >= 1

\* Triggers created so far: one per call whose create_snapshot_trigger
\* succeeded.
TriggersCreated ==
    (IF pc \notin {"idle", "create_trigger"} /\ error # "TriggerCallError"
     THEN 1 ELSE 0)
    + (IF peer.pc \notin {"idle", "create_trigger"}
          /\ peer.error # "TriggerCallError"
       THEN 1 ELSE 0)

\* Triggers the gateway still holds.
TriggersExisting ==
    (IF trigger \in {"pending", "ready", "failed"} THEN 1 ELSE 0)
    + (IF peer.trigger \in {"pending", "ready", "failed"} THEN 1 ELSE 0)

\* C20: fork never deletes the snapshot trigger it creates.  No path of a
\* call removes a trigger, so after k successful creations the gateway
\* holds k triggers, whether the calls returned or raised.
C20_TriggersNeverDeleted == TriggersCreated = TriggersExisting

\* Both calls are over and both their triggers remain.
C20_Witness ==
    /\ pc = "returned"
    /\ peer.pc = "returned"
    /\ TriggersCreated = 2
    /\ TriggersExisting = 2
====
